---- MODULE Spec2Model ----
(***************************************************************************)
(* Store provisioning controller (src/controller/operator.py): the store   *)
(* custom resources, the tenant namespaces with their secret and release,  *)
(* the provisioning semaphore and the three handlers on_create, on_resume  *)
(* and on_delete, each cut at its cluster calls; and the request layer     *)
(* (src/apps/api/main.py): create_store with its rate limiter and quotas,  *)
(* and delete_store.                                                       *)
(***************************************************************************)
EXTENDS Integers, Sequences, FiniteSets, TLC

\* ------------------------------------------------------------------ bounds
\* Handler invocations the watch framework dispatches in one run.
MaxDispatch == 3
\* Cluster calls, installer runs and label edits that go wrong in one run.
MaxFaults == 1
\* Highest metadata.generation a spec edit reaches.
MaxGeneration == 2
\* patch_store_status calls of the status-history specification.
MaxAppends == 5
\* create_store requests of one run of the request layer.
MaxRequests == 3
\* Seconds the clock of the request layer runs.
MaxClock == 3

\* ------------------------------------------------------- program constants
\* operator.py:23 (environment default "2").
MAX_CONCURRENT_PROVISIONS == 2
\* operator.py:24 (environment default "20"; a short history keeps the
\* trimming reachable).
MAX_STATUS_EVENTS == 3
\* operator.py:556, the delay of the lock-timeout TemporaryError.
LOCK_TIMEOUT_DELAY == 15
\* main.py:18-21 (environment defaults "5", "3", "5" and "60"; small values
\* keep the quotas, the limit and the end of a window reachable).
MAX_ACTIVE_STORES == 2
MAX_STORES_PER_IP == 1
CREATE_RATE_LIMIT == 2
RATE_WINDOW_SECONDS == 2

PLATFORM_NAMESPACE == "store-platform"
STORE_NS_PREFIX == "store-"
FINALIZER == "stores.urumi.ai/finalizer"
STORE_MANAGED_LABEL == "urumi.ai/managed-store"
STORE_ID_LABEL == "urumi.ai/storeId"
URL_SCHEME == "http"
BASE_DOMAIN == "127.0.0.1.nip.io"

\* The store resources of the model (metadata.name), and the engines a
\* spec may name; "bogus" is an engine outside the registry.
Stores == {"s1", "s2", "s3"}
\* Caller identities (_client_ip) and the worker threads serving requests.
Ips == {"10.0.0.1", "10.0.0.2"}
NoIp == ""
Requests == {"r1", "r2"}
\* No request: what a worker holds before its first one; after a request
\* it holds the response.
NoRequest ==
    [pc |-> "idle", ip |-> NoIp, storeId |-> "", engine |-> "", now |-> 0,
     code |-> 0, line |-> 0, body |-> ""]
Engines == {"woocommerce", "medusa", "bogus"}
ENGINE_HANDLERS == {"woocommerce", "medusa"}
\* rand_password draws from these.
Passwords == {"pw1", "pw2"}

\* ------------------------------------------------------------ dictionaries
\* Python dicts are functions on their key set.
EmptyDict == [k \in {} |-> 0]
Get(d, k, default) == IF k \in DOMAIN d THEN d[k] ELSE default
PopAll(d, ks) == [x \in DOMAIN d \ ks |-> d[x]]
\* d[k] = v: f @@ g has the keys of both and f's value where both have one.
Put(d, k, v) == (k :> v) @@ d
\* dict.update, and also what a merge patch of body onto obj leaves.
Update(d, e) == e @@ d

\* ------------------------------------------------------------ derived names
\* spec.get("storeId", name): the request layer names the resource by its
\* storeId (main.py:200,205).
StoreId(s) == s
store_namespace(store_id) == <<STORE_NS_PREFIX, store_id>>
store_host(store_id) == <<store_id, BASE_DOMAIN>>
store_url(store_id) == <<URL_SCHEME, store_host(store_id)>>
build_release_name(engine, store_id) == <<engine, store_id>>
NsNames == {store_namespace(StoreId(s)) : s \in Stores}
\* The handler on_delete uninstalls with: ENGINE_HANDLERS.get(engine, woocommerce).
DeleteHandlerName(engine) == IF engine \in ENGINE_HANDLERS THEN engine ELSE "woocommerce"

\* --------------------------------------------------------------- messages
\* str(e) and the literal messages, as tuples of their parts.
NoMessage == <<>>
UnsupportedEngineMsg(engine) == <<"Unsupported engine", engine>>
LockTimeoutMsg == <<"Provisioning lock timeout">>
NoExc == [type |-> "none", msg |-> NoMessage]
ApiException(call) == [type |-> "ApiException", msg |-> <<"ApiException", call>>]
HelmFailed == [type |-> "RuntimeError", msg |-> <<"helm failed">>]
HelmTimeout == [type |-> "TimeoutExpired", msg |-> <<"helm timed out">>]

\* ------------------------------------------------------------ status writes
NoPhase == ""
NoEvent == [type |-> "", message |-> NoMessage]
Event(type, message) == [type |-> type, message |-> message]
\* now_iso(): the wall clock is not modelled, a timestamp is the token "now".
now_iso == "now"

LastN(seq, n) ==
    IF Len(seq) <= n THEN seq ELSE SubSeq(seq, Len(seq) - n + 1, Len(seq))
FirstN(seq, n) == IF Len(seq) <= n THEN seq ELSE SubSeq(seq, 1, n)
\* A plausible slip of the trimming: events[:MAX_STATUS_EVENTS].
TrimEventsKeepOldest(events) == FirstN(events, MAX_STATUS_EVENTS)
\* events[-MAX_STATUS_EVENTS:]
TrimEvents(events) ==
    IF MAX_STATUS_EVENTS = 0 THEN events ELSE LastN(events, MAX_STATUS_EVENTS)

\* The dict patch_store_status builds from the stored status (lines 212-242):
\* set_fields with a value go to sets, set_fields with None to nones.
BuiltStatus(current, phase, event, sets, nones, drops) ==
    LET c1 == IF phase # NoPhase THEN Put(current, "phase", phase) ELSE current
        c2 == PopAll(Update(c1, sets), nones)
        c3 == PopAll(c2, drops)
        c4 == IF "createdAt" \in DOMAIN c3 THEN c3 ELSE Put(c3, "createdAt", now_iso)
        c5 == Put(c4, "updatedAt", now_iso)
        old == Get(c5, "events", <<>>)
        events == IF event.type # "" THEN TrimEvents(Append(old, event)) ELSE old
    IN  Put(c5, "events", events)

\* _safe_patch_store_status: the body {"status": status} is sent as a patch,
\* which the API server merges into the stored object: the keys of the body
\* replace the stored ones, a key the body lacks is left as stored.
MergePatch(stored, body) == Update(stored, body)

\* What the stored status is after one patch_store_status call.
patch_store_status(stored, phase, event, sets, nones, drops) ==
    MergePatch(stored, BuiltStatus(stored, phase, event, sets, nones, drops))

\* ----------------------------------------------------- namespaces, secrets
B64Encode(x) == <<"b64", x>>
B64Decode(y) == y[2]

NoSecret == [exists |-> FALSE, data |-> EmptyDict]
AbsentNs ==
    [exists |-> FALSE, labels |-> EmptyDict, quota |-> FALSE,
     secret |-> NoSecret, releases |-> {}, creator |-> "none"]

OwnershipLabels(store_id) ==
    [k \in {STORE_MANAGED_LABEL, STORE_ID_LABEL} |->
        IF k = STORE_MANAGED_LABEL THEN "true" ELSE store_id]

\* A slip of the ownership test: the storeId label is not compared.
LabelsOwnedManagedOnly(labels, store_id) ==
    Get(labels, STORE_MANAGED_LABEL, "") = "true"
\* _namespace_is_owned, the test of line 498 on the labels read.
LabelsOwned(labels, store_id) ==
    /\ Get(labels, STORE_MANAGED_LABEL, "") = "true"
    /\ Get(labels, STORE_ID_LABEL, "") = store_id

\* ensure_namespace on a namespace object (existing or not).
ensure_namespace(obj, store_id) ==
    LET labels == OwnershipLabels(store_id) IN
    IF obj.exists
    THEN IF \E k \in DOMAIN labels : Get(obj.labels, k, "") # labels[k]
         THEN [obj EXCEPT !.labels = Update(obj.labels, labels)]
         ELSE obj
    ELSE [AbsentNs EXCEPT !.exists = TRUE, !.labels = labels,
                          !.creator = "controller"]

\* A slip: the stored pair is never reused, every call issues a new one.
SecretNeverReused(sec) == FALSE
\* ensure_admin_secret: lines 453-459, the secret already holds a pair.
SecretHasCredentials(sec) ==
    /\ sec.exists
    /\ "username" \in DOMAIN sec.data
    /\ "password" \in DOMAIN sec.data
    /\ B64Decode(sec.data["username"]) # ""
    /\ B64Decode(sec.data["password"]) # ""
SecretCredentials(sec) ==
    [user |-> B64Decode(sec.data["username"]),
     password |-> B64Decode(sec.data["password"])]
\* lines 464-484: create the secret, or patch it when it exists (409).
StringData(store_id, password) ==
    [k \in {"username", "password", "storeId"} |->
        IF k = "username" THEN "admin"
        ELSE IF k = "password" THEN password ELSE store_id]
WrittenSecret(sec, store_id, password) ==
    LET sd == StringData(store_id, password)
        enc == [k \in DOMAIN sd |-> B64Encode(sd[k])]
    IN  [exists |-> TRUE, data |-> Update(sec.data, enc)]
NoCreds == [user |-> "", password |-> ""]

\* ------------------------------------------------------------------ state
VARIABLES
    present,            \* the store resource exists in the API server
    engine,             \* spec.engine
    generation,         \* metadata.generation
    deletionTimestamp,  \* metadata.deletionTimestamp is set
    finalizers,         \* metadata.finalizers
    status,             \* the stored status dict
    nsobj,              \* the tenant namespaces with labels, quota, secret, releases
    sem,                \* free permits of _provision_semaphore
    others,             \* permits held by reconciles of stores outside the model
    pc,                 \* where each resource's handler stands
    exc,                \* the exception the handler carries to its except/raise
    admin,              \* admin_user, admin_password of the running reconcile
    labels,             \* the labels _namespace_is_owned read
    metaGen,            \* meta["generation"] as handed to the running handler
    result,             \* what the last handler of the resource signalled
    budget,             \* handler invocations left
    faults,             \* failures left
    appended,           \* events passed to patch_store_status (history spec)
    requestedBy,        \* spec.requestedBy.ip
    clock,              \* what time.time() returns
    bucket,             \* _ip_create_requests
    req,                \* the create_store requests being served
    passed,             \* the requests that passed _check_create_rate_limit
    calls               \* create_store requests received

resourceVars == <<present, engine, generation, deletionTimestamp, finalizers, status>>
handlerVars == <<pc, exc, admin, labels, metaGen, result>>
apiVars == <<requestedBy, clock, bucket, req, passed, calls>>
vars == <<present, engine, generation, deletionTimestamp, finalizers, status,
          nsobj, sem, others, pc, exc, admin, labels, metaGen, result, budget, faults,
          appended, requestedBy, clock, bucket, req, passed, calls>>

\* error is str(e) of an exception that a handler lets through; the errors
\* the code builds itself are told apart by their outcome.
NoResult == [handler |-> "none", outcome |-> "none", delay |-> 0, error |-> NoMessage]
Result(handler, outcome, delay) ==
    [handler |-> handler, outcome |-> outcome, delay |-> delay, error |-> NoMessage]
\* How the framework sees a raised exception.
Raised(handler, e) ==
    [Result(handler, IF e.type \in {"PermanentError", "TemporaryError"}
                     THEN e.type ELSE "Exception", 0) EXCEPT !.error = e.msg]

\* A namespace somebody else made before the store was provisioned.
ExternalNs(lbls, sec) ==
    [AbsentNs EXCEPT !.exists = TRUE, !.labels = lbls, !.secret = sec,
                     !.creator = "external"]
ForeignLabels ==
    [k \in {STORE_MANAGED_LABEL, STORE_ID_LABEL} |->
        IF k = STORE_MANAGED_LABEL THEN "true" ELSE "other"]
HalfSecret ==
    [exists |-> TRUE,
     data |-> [k \in {"username", "password"} |->
                 IF k = "username" THEN B64Encode("admin") ELSE B64Encode("")]]
PreExisting ==
    {AbsentNs} \cup {ExternalNs(l, x) : l \in {EmptyDict, ForeignLabels},
                                        x \in {NoSecret, HalfSecret}}

\* Everything but the stored status.
InitFrame ==
    /\ generation = [s \in Stores |-> 1]
    /\ deletionTimestamp = [s \in Stores |-> FALSE]
    /\ finalizers = [s \in Stores |-> {}]
    /\ sem = MAX_CONCURRENT_PROVISIONS
    /\ others = 0
    /\ pc = [s \in Stores |-> "idle"]
    /\ exc = [s \in Stores |-> NoExc]
    /\ admin = [s \in Stores |-> NoCreds]
    /\ labels = [s \in Stores |-> EmptyDict]
    /\ metaGen = [s \in Stores |-> 0]
    /\ result = [s \in Stores |-> NoResult]
    /\ appended = 0
    /\ requestedBy = [s \in Stores |-> NoIp]
    /\ clock = 0
    /\ bucket = [ip \in Ips |-> <<>>]
    /\ req = [r \in Requests |-> NoRequest]
    /\ passed = <<>>
    /\ calls = 0
InitCommon ==
    /\ InitFrame
    /\ status = [s \in Stores |-> EmptyDict]

\* One store of any engine, its namespace name possibly taken already.
Init ==
    /\ InitCommon
    /\ present = [s \in Stores |-> s = "s1"]
    /\ engine \in {e \in [Stores -> Engines] :
                      e["s2"] = "medusa" /\ e["s3"] = "woocommerce"}
    /\ nsobj \in {n \in [NsNames -> PreExisting] :
                      \A s \in Stores \ {"s1"} : n[store_namespace(s)] = AbsentNs}
    /\ budget = MaxDispatch
    /\ faults = MaxFaults

Fail == IF faults > 0 THEN {FALSE, TRUE} ELSE {FALSE}
Spend(f) == faults' = IF f THEN faults - 1 ELSE faults

\* The handler of s ends: locals die, the framework gets res.
Finish(s, res) ==
    /\ pc' = [pc EXCEPT ![s] = "idle"]
    /\ exc' = [exc EXCEPT ![s] = NoExc]
    /\ admin' = [admin EXCEPT ![s] = NoCreds]
    /\ labels' = [labels EXCEPT ![s] = EmptyDict]
    /\ metaGen' = [metaGen EXCEPT ![s] = 0]
    /\ result' = [result EXCEPT ![s] = res]
Goto(s, label) ==
    /\ pc' = [pc EXCEPT ![s] = label]
    /\ UNCHANGED <<exc, admin, labels, metaGen, result>>
GotoExc(s, label, e) ==
    /\ pc' = [pc EXCEPT ![s] = label]
    /\ exc' = [exc EXCEPT ![s] = e]
    /\ UNCHANGED <<admin, labels, metaGen, result>>
WriteStatus(s, phase, event, sets, nones, drops) ==
    status' = [status EXCEPT ![s] =
                  patch_store_status(status[s], phase, event, sets, nones, drops)]

\* ------------------------------------------------------------ environment
\* The user deletes the resource (main.py delete_store): the API server
\* marks it, the finalizers hold it.
RequestDelete(s) ==
    /\ present[s] /\ ~deletionTimestamp[s]
    /\ deletionTimestamp' = [deletionTimestamp EXCEPT ![s] = TRUE]
    /\ UNCHANGED <<present, engine, generation, finalizers, status, nsobj, sem,
                   others, handlerVars, budget, faults, appended, apiVars>>

\* The user edits the spec: the API server bumps metadata.generation.
EditSpec(s) ==
    /\ present[s] /\ ~deletionTimestamp[s]
    /\ generation[s] < MaxGeneration
    /\ generation' = [generation EXCEPT ![s] = @ + 1]
    /\ UNCHANGED <<present, engine, deletionTimestamp, finalizers, status, nsobj,
                   sem, others, handlerVars, budget, faults, appended, apiVars>>

\* Somebody relabels a tenant namespace.
TamperLabels(n) ==
    /\ nsobj[n].exists /\ faults > 0
    /\ \E l \in {EmptyDict, ForeignLabels} :
          /\ l # nsobj[n].labels
          /\ nsobj' = [nsobj EXCEPT ![n].labels = l]
    /\ faults' = faults - 1
    /\ UNCHANGED <<resourceVars, sem, others, handlerVars, budget, appended, others, apiVars>>

\* Reconciles of stores outside the model take and return permits of the
\* same semaphore (lines 547 and 617 of their own passes).
OtherAcquire ==
    /\ sem > 0
    /\ sem' = sem - 1
    /\ others' = others + 1
    /\ UNCHANGED <<resourceVars, nsobj, handlerVars, budget, faults, appended, apiVars>>
OtherRelease ==
    /\ others > 0
    /\ sem' = sem + 1
    /\ others' = others - 1
    /\ UNCHANGED <<resourceVars, nsobj, handlerVars, budget, faults, appended, apiVars>>

\* The API server drops a deleted resource once its handler is through and
\* the finalizer is gone.
Remove(s) ==
    /\ present[s] /\ deletionTimestamp[s] /\ pc[s] = "idle"
    /\ FINALIZER \notin finalizers[s]
    /\ result[s] = Result("delete", "ok", 0)
    /\ present' = [present EXCEPT ![s] = FALSE]
    /\ UNCHANGED <<engine, generation, deletionTimestamp, finalizers, status,
                   nsobj, sem, others, handlerVars, budget, faults, appended, apiVars>>

\* The watch framework calls a handler: on_create and on_delete as the
\* resource's state asks, on_resume after any restart of the operator.
Dispatch(s, h) ==
    /\ present[s] /\ pc[s] = "idle" /\ budget > 0
    /\ h = "create" => ~deletionTimestamp[s]
    /\ h = "delete" => deletionTimestamp[s]
    /\ pc' = [pc EXCEPT ![s] =
                 CASE h = "create" -> "on_create"
                   [] h = "resume" -> "on_resume"
                   [] h = "delete" -> "on_delete"]
    /\ metaGen' = [metaGen EXCEPT ![s] = generation[s]]
    /\ result' = [result EXCEPT ![s] = Result(h, "running", 0)]
    /\ budget' = budget - 1
    /\ UNCHANGED <<resourceVars, nsobj, sem, others, exc, admin, labels, faults,
                   appended, apiVars>>
DispatchCreate(s) == Dispatch(s, "create")
DispatchResume(s) == Dispatch(s, "resume")
DispatchDelete(s) == Dispatch(s, "delete")

\* -------------------------------------------------------- reconcile_store
Handler(s) == result[s].handler
\* Every store of the model lives in the platform namespace.
ResourceNamespace(s) == "store-platform"
InPlatformNamespace(s) == ResourceNamespace(s) = PLATFORM_NAMESPACE

\* A slip of the gate: the permit count is not consulted.
CanAcquireAlways(free) == TRUE
\* threading.BoundedSemaphore: acquire takes a free permit, release gives
\* one back and raises ValueError rather than exceed the initial value.
CanAcquire(free) == free > 0
\* A slip: the permit is not given back.
ReleasedNever(free) == free
Released(free) == IF free < MAX_CONCURRENT_PROVISIONS THEN free + 1 ELSE free

ProvisioningFields(s) ==
    [k \in {"url", "namespace", "releaseName", "observedGeneration"} |->
        CASE k = "url" -> store_url(StoreId(s))
          [] k = "namespace" -> store_namespace(StoreId(s))
          [] k = "releaseName" -> build_release_name(engine[s], StoreId(s))
          [] k = "observedGeneration" -> metaGen[s]]
CredentialFields == {"adminPassword", "adminUser"}

\* A slip of the lookup: an unknown engine falls back to a registered one,
\* as on_delete's lookup does.
EngineKnownWithFallback(e) == TRUE
\* Lines 514-515: ENGINE_HANDLERS.get(engine) finds a handler.
EngineKnown(e) == e \in ENGINE_HANDLERS

\* A slip: the pass goes on without attaching the token.
add_finalizer_skipped(fs) == fs
\* add_finalizer, lines 247-260, on the finalizer list it read.
add_finalizer(fs) == fs \cup {FINALIZER}

\* Lines 509-531: scope, engine lookup (unknown: Failed and PermanentError),
\* add_finalizer.
ReconcileEntry(s) ==
    /\ InPlatformNamespace(s)
    /\ \E f \in Fail :
        /\ Spend(f)
        /\ IF ~EngineKnown(engine[s])
           THEN /\ IF f
                   THEN /\ UNCHANGED status
                        /\ Finish(s, Raised(Handler(s), ApiException("status")))
                   ELSE /\ WriteStatus(s, "Failed",
                               Event("Failed", UnsupportedEngineMsg(engine[s])),
                               [k \in {"lastError"} |-> UnsupportedEngineMsg(engine[s])],
                               {}, {})
                        /\ Finish(s, Result(Handler(s), "PermanentError", 0))
                /\ UNCHANGED finalizers
           ELSE /\ IF f
                   THEN /\ UNCHANGED finalizers
                        /\ Finish(s, Raised(Handler(s), ApiException("finalizer")))
                   ELSE /\ finalizers' = [finalizers EXCEPT ![s] = add_finalizer(@)]
                        /\ Goto(s, "provisioning")
                /\ UNCHANGED status
    /\ UNCHANGED <<present, engine, generation, deletionTimestamp, nsobj, sem,
                   budget, appended, others, apiVars>>

\* on_create, lines 626-628.
OnCreate(s) ==
    /\ pc[s] = "on_create"
    /\ ReconcileEntry(s)

\* on_resume's test of lines 638-640 on the status and generation it is given.
ResumeInverted(st, gen) ==
    /\ Get(st, "phase", "") = "Ready"
    /\ Get(st, "observedGeneration", -1) # gen
ResumeUpToDate(st, gen) ==
    /\ Get(st, "phase", "") = "Ready"
    /\ Get(st, "observedGeneration", -1) = gen

\* A slip: on_resume without the test of lines 635-636.
ResumeIgnoresDeletion(dts) == FALSE
\* Lines 635-636: meta.get("deletionTimestamp") is set.
ResumeSeesDeletion(dts) == dts

\* on_resume, lines 631-642.
OnResume(s) ==
    /\ pc[s] = "on_resume"
    /\ IF \/ ~InPlatformNamespace(s)
          \/ ResumeSeesDeletion(deletionTimestamp[s])
          \/ ResumeUpToDate(status[s], metaGen[s])
       THEN /\ Finish(s, Result("resume", "skipped", 0))
            /\ UNCHANGED <<resourceVars, nsobj, sem, others, budget, faults, appended, apiVars>>
       ELSE ReconcileEntry(s)

\* Lines 532-545: the ProvisioningStarted write, outside the try block.
Provisioning(s) ==
    /\ pc[s] = "provisioning"
    /\ \E f \in Fail :
        /\ Spend(f)
        /\ IF f
           THEN /\ UNCHANGED status
                /\ Finish(s, Raised(Handler(s), ApiException("status")))
           ELSE /\ WriteStatus(s, "Provisioning",
                       Event("ProvisioningStarted", <<"Starting reconcile for", engine[s]>>),
                       ProvisioningFields(s), {"lastError"}, CredentialFields)
                /\ Goto(s, "acquire")
    /\ UNCHANGED <<present, engine, generation, deletionTimestamp, finalizers,
                   nsobj, sem, budget, appended, others, apiVars>>

\* Line 547, a permit is free within the wait.
Acquire(s) ==
    /\ pc[s] = "acquire"
    /\ CanAcquire(sem)
    /\ sem' = sem - 1
    /\ Goto(s, "namespace_event")
    /\ UNCHANGED <<resourceVars, nsobj, others, budget, faults, appended, apiVars>>

\* A slip: the timeout raised as the unknown engine is, never to be retried.
LockTimeoutPermanent(handler) == Result(handler, "PermanentError", 0)
\* Line 556: kopf.TemporaryError("Provisioning lock timeout", delay=15).
LockTimeoutError(handler) == Result(handler, "TemporaryError", LOCK_TIMEOUT_DELAY)

\* Lines 548-556: no permit came free for MAX_PROVISION_SECONDS.
AcquireTimeout(s) ==
    /\ pc[s] = "acquire"
    /\ ~CanAcquire(sem)
    /\ \E f \in Fail :
        /\ Spend(f)
        /\ IF f
           THEN /\ UNCHANGED status
                /\ Finish(s, Raised(Handler(s), ApiException("status")))
           ELSE /\ WriteStatus(s, "Failed", Event("Failed", LockTimeoutMsg),
                       [k \in {"lastError"} |-> LockTimeoutMsg], {}, {})
                /\ Finish(s, LockTimeoutError(Handler(s)))
    /\ UNCHANGED <<present, engine, generation, deletionTimestamp, finalizers,
                   nsobj, sem, budget, appended, others, apiVars>>

\* Lines 559-564.
NamespaceEvent(s) ==
    /\ pc[s] = "namespace_event"
    /\ \E f \in Fail :
        /\ Spend(f)
        /\ IF f
           THEN /\ UNCHANGED status
                /\ GotoExc(s, "failed", ApiException("status"))
           ELSE /\ WriteStatus(s, NoPhase,
                       Event("NamespaceReady", <<"Ensuring namespace", store_namespace(StoreId(s))>>),
                       [k \in {"namespace"} |-> store_namespace(StoreId(s))], {}, {})
                /\ Goto(s, "namespace")
    /\ UNCHANGED <<present, engine, generation, deletionTimestamp, finalizers,
                   nsobj, sem, budget, appended, others, apiVars>>

\* Line 565.
EnsureNamespace(s) ==
    /\ pc[s] = "namespace"
    /\ LET n == store_namespace(StoreId(s)) IN
       \E f \in Fail :
        /\ Spend(f)
        /\ IF f
           THEN /\ UNCHANGED nsobj
                /\ GotoExc(s, "failed", ApiException("namespace"))
           ELSE /\ nsobj' = [nsobj EXCEPT ![n] = ensure_namespace(@, StoreId(s))]
                /\ Goto(s, "namespace_resources")
    /\ UNCHANGED <<resourceVars, sem, budget, appended, others, apiVars>>

\* Line 566, ensure_namespace_resources: quota and limit range raise, the
\* network policies do not.
EnsureNamespaceResources(s) ==
    /\ pc[s] = "namespace_resources"
    /\ LET n == store_namespace(StoreId(s)) IN
       \E f \in Fail :
        /\ Spend(f)
        /\ IF f \/ ~nsobj[n].exists
           THEN /\ UNCHANGED nsobj
                /\ GotoExc(s, "failed", ApiException("quota"))
           ELSE /\ nsobj' = [nsobj EXCEPT ![n].quota = TRUE]
                /\ Goto(s, "admin_secret")
    /\ UNCHANGED <<resourceVars, sem, budget, appended, others, apiVars>>

\* Line 568, ensure_admin_secret.
EnsureAdminSecret(s) ==
    /\ pc[s] = "admin_secret"
    /\ LET n == store_namespace(StoreId(s)) IN
       \E f \in Fail :
        /\ Spend(f)
        /\ IF f \/ ~nsobj[n].exists
           THEN /\ UNCHANGED nsobj
                /\ GotoExc(s, "failed", ApiException("secret"))
           ELSE IF SecretHasCredentials(nsobj[n].secret)
           THEN /\ UNCHANGED nsobj
                /\ admin' = [admin EXCEPT ![s] = SecretCredentials(nsobj[n].secret)]
                /\ pc' = [pc EXCEPT ![s] = "install_event"]
                /\ UNCHANGED <<exc, labels, metaGen, result>>
           ELSE \E p \in Passwords :
                /\ nsobj' = [nsobj EXCEPT ![n].secret = WrittenSecret(@, StoreId(s), p)]
                /\ admin' = [admin EXCEPT ![s] = [user |-> "admin", password |-> p]]
                /\ pc' = [pc EXCEPT ![s] = "install_event"]
                /\ UNCHANGED <<exc, labels, metaGen, result>>
    /\ UNCHANGED <<resourceVars, sem, budget, appended, others, apiVars>>

\* Lines 569-582: the HelmInstallStarted write, then the installer starts.
InstallEvent(s) ==
    /\ pc[s] = "install_event"
    /\ \E f \in Fail :
        /\ Spend(f)
        /\ IF f
           THEN /\ UNCHANGED status
                /\ GotoExc(s, "failed", ApiException("status"))
           ELSE /\ WriteStatus(s, NoPhase,
                       Event("HelmInstallStarted",
                             <<"Installing/upgrading release", build_release_name(engine[s], StoreId(s))>>),
                       EmptyDict, {}, {})
                /\ Goto(s, "helm")
    /\ UNCHANGED <<present, engine, generation, deletionTimestamp, finalizers,
                   nsobj, sem, budget, appended, others, apiVars>>

\* Lines 582-583: run_helm returns, exits non-zero or runs out of time;
\* post_ready_checks does nothing.
HelmDone(s) ==
    /\ pc[s] = "helm"
    /\ LET n == store_namespace(StoreId(s)) IN
       \E f \in Fail :
        /\ Spend(f)
        /\ IF f \/ ~nsobj[n].exists
           THEN /\ UNCHANGED nsobj
                /\ \E e \in {HelmFailed, HelmTimeout} : GotoExc(s, "failed", e)
           ELSE /\ nsobj' = [nsobj EXCEPT ![n].releases =
                                @ \cup {build_release_name(engine[s], StoreId(s))}]
                /\ Goto(s, "ready")
    /\ UNCHANGED <<resourceVars, sem, budget, appended, others, apiVars>>

ReadyFields(s) ==
    [k \in {"url", "readyAt", "releaseName", "namespace", "observedGeneration"} |->
        CASE k = "url" -> store_url(StoreId(s))
          [] k = "readyAt" -> now_iso
          [] k = "releaseName" -> build_release_name(engine[s], StoreId(s))
          [] k = "namespace" -> store_namespace(StoreId(s))
          [] k = "observedGeneration" -> metaGen[s]]

\* Lines 585-600 and the finally of 616-617.
Ready(s) ==
    /\ pc[s] = "ready"
    /\ \E f \in Fail :
        /\ Spend(f)
        /\ IF f
           THEN /\ UNCHANGED <<status, sem>>
                /\ GotoExc(s, "failed", ApiException("status"))
           ELSE /\ WriteStatus(s, "Ready",
                       Event("Ready", <<"Store ready at", store_url(StoreId(s))>>),
                       ReadyFields(s), {"lastError"}, CredentialFields)
                /\ sem' = Released(sem)
                /\ Finish(s, Result(Handler(s), "ok", 0))
    /\ UNCHANGED <<present, engine, generation, deletionTimestamp, finalizers,
                   nsobj, budget, appended, others, apiVars>>

\* A slip: the message written is a fixed text, not the failure's.
FailedFieldsFixedText(s, e) ==
    [k \in {"lastError", "releaseName", "namespace", "observedGeneration"} |->
        CASE k = "lastError" -> <<"reconcile failed">>
          [] k = "releaseName" -> build_release_name(engine[s], StoreId(s))
          [] k = "namespace" -> store_namespace(StoreId(s))
          [] k = "observedGeneration" -> metaGen[s]]
\* Lines 607-612, set_fields of the except block.
FailedFields(s, e) ==
    [k \in {"lastError", "releaseName", "namespace", "observedGeneration"} |->
        CASE k = "lastError" -> e.msg
          [] k = "releaseName" -> build_release_name(engine[s], StoreId(s))
          [] k = "namespace" -> store_namespace(StoreId(s))
          [] k = "observedGeneration" -> metaGen[s]]

\* A slip: the except block ends without raising.
ReraiseSwallowed(handler, e) == Result(handler, "ok", 0)
\* Line 615: raise, the exception caught goes on to the framework.
Reraise(handler, e) == Raised(handler, e)

\* Lines 601-617: the except block writes Failed and re-raises, the finally
\* gives the permit back.
Failed(s) ==
    /\ pc[s] = "failed"
    /\ \E f \in Fail :
        /\ Spend(f)
        /\ IF f
           THEN /\ UNCHANGED status
                /\ Finish(s, Raised(Handler(s), ApiException("status")))
           ELSE /\ WriteStatus(s, "Failed", Event("Failed", exc[s].msg),
                       FailedFields(s, exc[s]), {}, CredentialFields)
                /\ Finish(s, Reraise(Handler(s), exc[s]))
    /\ sem' = Released(sem)
    /\ UNCHANGED <<present, engine, generation, deletionTimestamp, finalizers,
                   nsobj, budget, appended, others, apiVars>>

\* ---------------------------------------------------------------- on_delete
DeleteRelease(s) == build_release_name(DeleteHandlerName(engine[s]), StoreId(s))
DeleteFields(s) ==
    [k \in {"namespace", "releaseName"} |->
        IF k = "namespace" THEN store_namespace(StoreId(s)) ELSE DeleteRelease(s)]

\* Lines 646-663: scope, names, the Deleting write.
OnDelete(s) ==
    /\ pc[s] = "on_delete"
    /\ InPlatformNamespace(s)
    /\ \E f \in Fail :
        /\ Spend(f)
        /\ IF f
           THEN /\ UNCHANGED status
                /\ GotoExc(s, "remove_finalizer", ApiException("status"))
           ELSE /\ WriteStatus(s, "Deleting",
                       Event("Deleting", <<"Deleting", DeleteRelease(s)>>),
                       DeleteFields(s), {}, {})
                /\ Goto(s, "uninstall")
    /\ UNCHANGED <<present, engine, generation, deletionTimestamp, finalizers,
                   nsobj, sem, budget, appended, others, apiVars>>

\* Lines 664-667: helm uninstall, any failure swallowed.
Uninstall(s) ==
    /\ pc[s] = "uninstall"
    /\ LET n == store_namespace(StoreId(s)) IN
       \E f \in Fail :
        /\ Spend(f)
        /\ nsobj' = IF f THEN nsobj
                    ELSE [nsobj EXCEPT ![n].releases = @ \ {DeleteRelease(s)}]
    /\ Goto(s, "ownership")
    /\ UNCHANGED <<resourceVars, sem, budget, appended, others, apiVars>>

\* Line 669, _namespace_is_owned (lines 488-498).
Ownership(s) ==
    /\ pc[s] = "ownership"
    /\ LET n == store_namespace(StoreId(s)) IN
       \E f \in Fail :
        /\ Spend(f)
        /\ IF n[1] # STORE_NS_PREFIX \/ (~f /\ ~nsobj[n].exists)
           THEN Goto(s, "deleted")
           ELSE IF f
           THEN GotoExc(s, "remove_finalizer", ApiException("namespace"))
           ELSE /\ labels' = [labels EXCEPT ![s] = nsobj[n].labels]
                /\ pc' = [pc EXCEPT ![s] =
                             IF LabelsOwned(nsobj[n].labels, StoreId(s))
                             THEN "delete_namespace" ELSE "deleted"]
                /\ UNCHANGED <<exc, admin, metaGen, result>>
    /\ UNCHANGED <<resourceVars, nsobj, sem, budget, appended, others, apiVars>>

\* Lines 670-674: delete_namespace, a 404 is success.
DeleteNamespace(s) ==
    /\ pc[s] = "delete_namespace"
    /\ LET n == store_namespace(StoreId(s)) IN
       \E f \in Fail :
        /\ Spend(f)
        /\ IF f
           THEN /\ UNCHANGED nsobj
                /\ GotoExc(s, "remove_finalizer", ApiException("namespace"))
           ELSE /\ nsobj' = [nsobj EXCEPT ![n] = AbsentNs]
                /\ Goto(s, "deleted")
    /\ UNCHANGED <<resourceVars, sem, budget, appended, others, apiVars>>

\* Lines 676-681.
Deleted(s) ==
    /\ pc[s] = "deleted"
    /\ \E f \in Fail :
        /\ Spend(f)
        /\ IF f
           THEN /\ UNCHANGED status
                /\ GotoExc(s, "remove_finalizer", ApiException("status"))
           ELSE /\ WriteStatus(s, "Deleted",
                       Event("Deleted", <<"Deleted resources for", StoreId(s)>>),
                       EmptyDict, {}, {})
                /\ Goto(s, "remove_finalizer")
    /\ UNCHANGED <<present, engine, generation, deletionTimestamp, finalizers,
                   nsobj, sem, budget, appended, others, apiVars>>

\* A slip: the list is patched back as it was read.
remove_finalizer_skipped(fs) == fs
\* remove_finalizer, lines 263-281, on the finalizer list it read.
remove_finalizer(fs) == fs \ {FINALIZER}

\* Lines 682-686: the finally block; a failed removal is logged, whatever
\* the try block raised goes on to the framework.
RemoveFinalizer(s) ==
    /\ pc[s] = "remove_finalizer"
    /\ \E f \in Fail :
        /\ Spend(f)
        /\ finalizers' = IF f THEN finalizers
                         ELSE [finalizers EXCEPT ![s] = remove_finalizer(@)]
    /\ Finish(s, IF exc[s] = NoExc THEN Result("delete", "ok", 0)
                 ELSE Raised("delete", exc[s]))
    /\ UNCHANGED <<present, engine, generation, deletionTimestamp, status,
                   nsobj, sem, budget, appended, others, apiVars>>

\* ------------------------------------------------------------ specification
\* The steps of the handlers of one resource.
ReconcileStep(s) ==
    \/ OnCreate(s)
    \/ OnResume(s)
    \/ Provisioning(s)
    \/ Acquire(s)
    \/ AcquireTimeout(s)
    \/ NamespaceEvent(s)
    \/ EnsureNamespace(s)
    \/ EnsureNamespaceResources(s)
    \/ EnsureAdminSecret(s)
    \/ InstallEvent(s)
    \/ HelmDone(s)
    \/ Ready(s)
    \/ Failed(s)
DeleteStep(s) ==
    \/ OnDelete(s)
    \/ Uninstall(s)
    \/ Ownership(s)
    \/ DeleteNamespace(s)
    \/ Deleted(s)
    \/ RemoveFinalizer(s)

\* The life of one store, from its creation to its removal, next to
\* reconciles of other stores that share the gate.
Next ==
    \/ \E s \in Stores : RequestDelete(s)
    \/ \E s \in Stores : EditSpec(s)
    \/ \E n \in NsNames : TamperLabels(n)
    \/ OtherAcquire
    \/ OtherRelease
    \/ \E s \in Stores : Remove(s)
    \/ \E s \in Stores : DispatchCreate(s)
    \/ \E s \in Stores : DispatchResume(s)
    \/ \E s \in Stores : DispatchDelete(s)
    \/ \E s \in Stores : ReconcileStep(s)
    \/ \E s \in Stores : DeleteStep(s)

Spec == Init /\ [][Next]_vars

\* A store whose status still holds the admin credentials an earlier
\* release of the controller kept there: the fields that drop_fields of
\* lines 544, 598 and 613 names.
LegacyStatus ==
    [phase |-> "Failed", adminUser |-> "admin", adminPassword |-> "pw1"]
InitLegacy ==
    /\ InitFrame
    /\ status = [s \in Stores |-> IF s = "s1" THEN LegacyStatus ELSE EmptyDict]
    /\ present = [s \in Stores |-> s = "s1"]
    /\ engine \in {e \in [Stores -> Engines] :
                      e["s2"] = "medusa" /\ e["s3"] = "woocommerce"}
    /\ nsobj = [n \in NsNames |-> AbsentNs]
    /\ budget = MaxDispatch
    /\ faults = MaxFaults
SpecLegacy == InitLegacy /\ [][Next]_vars

\* Three stores of supported engines provisioned side by side.
MaxGateDispatch == 3
MaxGateFaults == 1
InitGate ==
    /\ InitCommon
    /\ present = [s \in Stores |-> TRUE]
    /\ engine = [s \in Stores |-> IF s = "s2" THEN "medusa" ELSE "woocommerce"]
    /\ nsobj = [n \in NsNames |-> AbsentNs]
    /\ budget = MaxGateDispatch
    /\ faults = MaxGateFaults

NextGate ==
    \/ \E s \in Stores : DispatchCreate(s)
    \/ \E s \in Stores : DispatchResume(s)
    \/ \E s \in Stores : ReconcileStep(s)

SpecGate == InitGate /\ [][NextGate]_vars

\* One store of a supported engine, never deleted, whose on_create the
\* framework calls again after every error that asks for a retry, next to
\* a bounded number of passes of other stores through the gate.
MaxLiveFaults == 2
MaxOtherPasses == 2
InitLive ==
    /\ InitCommon
    /\ present = [s \in Stores |-> s = "s1"]
    /\ engine \in {e \in [Stores -> ENGINE_HANDLERS] :
                      e["s2"] = "medusa" /\ e["s3"] = "woocommerce"}
    /\ nsobj = [n \in NsNames |-> AbsentNs]
    /\ budget = MaxOtherPasses
    /\ faults = MaxLiveFaults

\* The framework calls on_create for a new resource, and again after the
\* handler raised anything but a PermanentError.
Deliver(s) ==
    /\ present[s] /\ pc[s] = "idle" /\ ~deletionTimestamp[s]
    /\ result[s].outcome \in {"none", "Exception", "TemporaryError"}
    /\ pc' = [pc EXCEPT ![s] = "on_create"]
    /\ metaGen' = [metaGen EXCEPT ![s] = generation[s]]
    /\ result' = [result EXCEPT ![s] = Result("create", "running", 0)]
    /\ UNCHANGED <<resourceVars, nsobj, sem, others, exc, admin, labels, budget,
                   faults, appended, apiVars>>

\* A pass of a store outside the model enters the guarded section.
OtherPass ==
    /\ budget > 0 /\ sem > 0
    /\ sem' = sem - 1
    /\ others' = others + 1
    /\ budget' = budget - 1
    /\ UNCHANGED <<resourceVars, nsobj, handlerVars, faults, appended, apiVars>>

LiveStep(s) ==
    \/ OnCreate(s)
    \/ Provisioning(s)
    \/ Acquire(s)
    \/ AcquireTimeout(s)
    \/ NamespaceEvent(s)
    \/ EnsureNamespace(s)
    \/ EnsureNamespaceResources(s)
    \/ EnsureAdminSecret(s)
    \/ InstallEvent(s)
    \/ HelmDone(s)
    \/ Ready(s)
    \/ Failed(s)

NextLive ==
    \/ \E s \in Stores : Deliver(s)
    \/ OtherPass
    \/ OtherRelease
    \/ \E s \in Stores : LiveStep(s)

\* Every call the framework owes is made, every started step of a handler
\* ends (the cluster calls and the installer return or time out), and a
\* pass that holds a permit gives it back.
FairLive ==
    /\ \A s \in Stores : WF_vars(Deliver(s)) /\ WF_vars(LiveStep(s))
    /\ WF_vars(OtherRelease)

SpecLive == InitLive /\ [][NextLive]_vars /\ FairLive

\* One resource's status under repeated patch_store_status calls, each
\* event numbered by the count of events passed so far.
PatchCall(s, phase, type, sets, nones) ==
    /\ appended < MaxAppends
    /\ LET event == IF type = "" THEN NoEvent ELSE Event(type, <<appended + 1>>) IN
       /\ WriteStatus(s, phase, event, sets, nones, CredentialFields)
       /\ appended' = IF type = "" THEN appended ELSE appended + 1
    /\ UNCHANGED <<present, engine, generation, deletionTimestamp, finalizers,
                   nsobj, sem, others, handlerVars, budget, faults, apiVars>>

InitHistory ==
    /\ InitCommon
    /\ present = [s \in Stores |-> s = "s1"]
    /\ engine = [s \in Stores |-> "woocommerce"]
    /\ nsobj = [n \in NsNames |-> AbsentNs]
    /\ budget = 0
    /\ faults = 0

NextHistory ==
    \E phase \in {NoPhase, "Provisioning", "Failed"},
       type \in {"", "Failed", "NamespaceReady"},
       err \in {"set", "clear", "keep"} :
        PatchCall("s1", phase, type,
                  IF err = "set" THEN [k \in {"lastError"} |-> LockTimeoutMsg]
                  ELSE EmptyDict,
                  IF err = "clear" THEN {"lastError"} ELSE {})

SpecHistory == InitHistory /\ [][NextHistory]_vars

\* ----------------------------------------------------------- request layer
\* src/apps/api/main.py: create_store served by worker threads, each request
\* cut at the rate limiter's lock and at its cluster calls; delete_store;
\* the clock; and the controller as far as the request layer sees it.
controllerVars ==
    <<generation, status, nsobj, sem, others, handlerVars, budget, faults, appended>>

\* Lines 97-98: the entries at the head older than the window are dropped.
RECURSIVE Evict(_, _)
Evict(b, now) ==
    IF b # <<>> /\ (now - Head(b)) > RATE_WINDOW_SECONDS
    THEN Evict(Tail(b), now)
    ELSE b

\* Lines 153-170: the line of the quota that raises, 0 when none does.
enforce_store_quotas(items, caller_ip) ==
    LET active == {s \in items : ~deletionTimestamp[s]}
        same_ip == Cardinality({s \in active : requestedBy[s] = caller_ip})
    IN  IF Cardinality(active) >= MAX_ACTIVE_STORES THEN 156
        ELSE IF same_ip >= MAX_STORES_PER_IP THEN 167
        ELSE 0

\* A slip: any existing resource counts as the one asked for.
SameEngineAlways(existing_engine, req_engine) == TRUE
\* Lines 186 and 227: existing_engine != req.engine is the conflict.
SameEngine(existing_engine, req_engine) == existing_engine = req_engine

\* The request ends: the status code, the line that returned or raised, and
\* spec.engine of the resource in the response, if there is one.
Return(r, code, line, body) ==
    req' = [req EXCEPT ![r] = [NoRequest EXCEPT !.code = code, !.line = line,
                                                !.body = body]]
Proceed(r, label) == req' = [req EXCEPT ![r].pc = label, ![r].now = 0]
\* Any call to the API server may be answered with an error.
ApiFail == {FALSE, TRUE}

\* Lines 179-181 and 94: a request arrives at a free worker, which reads
\* the clock before it asks for the lock.
CreateStore(r, ip, store_id, e) ==
    /\ req[r].pc = "idle"
    /\ calls < MaxRequests
    /\ req' = [req EXCEPT ![r] = [pc |-> "lock", ip |-> ip, storeId |-> store_id,
                                  engine |-> e, now |-> clock, code |-> 0,
                                  line |-> 0, body |-> ""]]
    /\ calls' = calls + 1
    /\ UNCHANGED <<present, engine, deletionTimestamp, finalizers, requestedBy,
                   clock, bucket, passed, controllerVars>>

\* Lines 95-104: the block under _rate_limit_lock; now is a local of
\* _check_create_rate_limit and is gone when it returns.
CheckCreateRateLimit(r) ==
    /\ req[r].pc = "lock"
    /\ LET ip == req[r].ip
           evicted == Evict(bucket[ip], req[r].now)
       IN  IF Len(evicted) >= CREATE_RATE_LIMIT
           THEN /\ bucket' = [bucket EXCEPT ![ip] = evicted]
                /\ Return(r, 429, 100, "")
                /\ UNCHANGED passed
           ELSE /\ bucket' = [bucket EXCEPT ![ip] = Append(evicted, req[r].now)]
                /\ passed' = Append(passed, [ip |-> ip, now |-> req[r].now,
                                             at |-> clock])
                /\ Proceed(r, "get")
    /\ UNCHANGED <<present, engine, deletionTimestamp, finalizers, requestedBy,
                   clock, calls, controllerVars>>

\* Lines 183-191 with _get_store_or_none, lines 138-150.
GetStoreOrNone(r) ==
    /\ req[r].pc = "get"
    /\ \E f \in ApiFail :
        IF f THEN Return(r, 500, 150, "")
        ELSE IF present[req[r].storeId]
        THEN IF SameEngine(engine[req[r].storeId], req[r].engine)
             THEN Return(r, 200, 191, engine[req[r].storeId])
             ELSE Return(r, 409, 187, "")
        ELSE Proceed(r, "list")
    /\ UNCHANGED <<present, engine, deletionTimestamp, finalizers, requestedBy,
                   clock, bucket, passed, calls, controllerVars>>

\* Lines 193-194: the list and the quotas checked on it.
EnforceStoreQuotas(r) ==
    /\ req[r].pc = "list"
    /\ \E f \in ApiFail :
        IF f THEN Return(r, 500, 117, "")
        ELSE LET raised == enforce_store_quotas({s \in Stores : present[s]}, req[r].ip)
             IN  IF raised # 0 THEN Return(r, 409, raised, "")
                 ELSE Proceed(r, "create")
    /\ UNCHANGED <<present, engine, deletionTimestamp, finalizers, requestedBy,
                   clock, bucket, passed, calls, controllerVars>>

\* Lines 196-223 and 234: the create call; the API server answers 409 when
\* the name is taken.
CreateObject(r) ==
    /\ req[r].pc = "create"
    /\ LET store_id == req[r].storeId IN
       \E f \in ApiFail :
        IF f
        THEN /\ Return(r, 500, 234, "")
             /\ UNCHANGED <<present, engine, requestedBy>>
        ELSE IF present[store_id]
        THEN /\ Proceed(r, "race")
             /\ UNCHANGED <<present, engine, requestedBy>>
        ELSE /\ present' = [present EXCEPT ![store_id] = TRUE]
             /\ engine' = [engine EXCEPT ![store_id] = req[r].engine]
             /\ requestedBy' = [requestedBy EXCEPT ![store_id] = req[r].ip]
             /\ Return(r, 200, 221, req[r].engine)
    /\ UNCHANGED <<deletionTimestamp, finalizers, clock, bucket, passed, calls,
                   controllerVars>>

\* Lines 224-233: the second look after a 409.
ExistingAfterRace(r) ==
    /\ req[r].pc = "race"
    /\ \E f \in ApiFail :
        IF f THEN Return(r, 500, 150, "")
        ELSE IF present[req[r].storeId]
        THEN IF SameEngine(engine[req[r].storeId], req[r].engine)
             THEN Return(r, 200, 232, engine[req[r].storeId])
             ELSE Return(r, 409, 228, "")
        ELSE Return(r, 409, 233, "")
    /\ UNCHANGED <<present, engine, deletionTimestamp, finalizers, requestedBy,
                   clock, bucket, passed, calls, controllerVars>>

\* The API server forgets a resource.
Dropped(s) ==
    /\ present' = [present EXCEPT ![s] = FALSE]
    /\ engine' = [engine EXCEPT ![s] = "woocommerce"]
    /\ deletionTimestamp' = [deletionTimestamp EXCEPT ![s] = FALSE]
    /\ requestedBy' = [requestedBy EXCEPT ![s] = NoIp]

\* Lines 262-277: the delete call marks a resource that has a finalizer and
\* drops one that has none.
delete_store(s) ==
    /\ present[s] /\ ~deletionTimestamp[s]
    /\ IF finalizers[s] = {}
       THEN Dropped(s)
       ELSE /\ deletionTimestamp' = [deletionTimestamp EXCEPT ![s] = TRUE]
            /\ UNCHANGED <<present, engine, requestedBy>>
    /\ UNCHANGED <<finalizers, clock, bucket, req, passed, calls, controllerVars>>

\* The controller, seen from the request layer: a reconcile attaches the
\* finalizer, on_delete's last step takes it off and the resource goes.
Reconciled(s) ==
    /\ present[s] /\ ~deletionTimestamp[s]
    /\ FINALIZER \notin finalizers[s]
    /\ finalizers' = [finalizers EXCEPT ![s] = add_finalizer(@)]
    /\ UNCHANGED <<present, engine, deletionTimestamp, requestedBy, clock, bucket,
                   req, passed, calls, controllerVars>>
TornDown(s) ==
    /\ present[s] /\ deletionTimestamp[s]
    /\ finalizers' = [finalizers EXCEPT ![s] = remove_finalizer(@)]
    /\ Dropped(s)
    /\ UNCHANGED <<clock, bucket, req, passed, calls, controllerVars>>

\* A second passes.
Tick ==
    /\ clock < MaxClock
    /\ clock' = clock + 1
    /\ UNCHANGED <<present, engine, deletionTimestamp, finalizers, requestedBy,
                   bucket, req, passed, calls, controllerVars>>

InitApi ==
    /\ InitCommon
    /\ present = [s \in Stores |-> FALSE]
    /\ engine = [s \in Stores |-> "woocommerce"]
    /\ nsobj = [n \in NsNames |-> AbsentNs]
    /\ budget = 0
    /\ faults = 0

\* Requests of any caller for any store, all within one second.
NextApi ==
    \/ \E r \in Requests, ip \in Ips, store_id \in Stores, e \in ENGINE_HANDLERS :
          CreateStore(r, ip, store_id, e)
    \/ \E r \in Requests : CheckCreateRateLimit(r)
    \/ \E r \in Requests : GetStoreOrNone(r)
    \/ \E r \in Requests : EnforceStoreQuotas(r)
    \/ \E r \in Requests : CreateObject(r)
    \/ \E r \in Requests : ExistingAfterRace(r)
    \/ \E s \in Stores : delete_store(s)
    \/ \E s \in Stores : Reconciled(s)
    \/ \E s \in Stores : TornDown(s)

SpecApi == InitApi /\ [][NextApi]_vars

\* The rate limiter over time: requests for one store, nothing deleted.
NextRate ==
    \/ \E r \in Requests, ip \in Ips : CreateStore(r, ip, "s1", "woocommerce")
    \/ \E r \in Requests : CheckCreateRateLimit(r)
    \/ \E r \in Requests : GetStoreOrNone(r)
    \/ \E r \in Requests : EnforceStoreQuotas(r)
    \/ \E r \in Requests : CreateObject(r)
    \/ \E r \in Requests : ExistingAfterRace(r)
    \/ Tick

SpecRate == InitApi /\ [][NextRate]_vars

\* ------------------------------------------------------------------ claims
TenantNs(s) == nsobj[store_namespace(StoreId(s))]
Phase(s) == Get(status[s], "phase", NoPhase)
LastEvent(s) ==
    LET ev == Get(status[s], "events", <<>>) IN
    IF Len(ev) = 0 THEN NoEvent ELSE ev[Len(ev)]
\* The stores whose installer is running.
InFlight == {s \in Stores : pc[s] = "helm"}
\* The steps a reconcile takes while it holds a permit.
Gated == {"namespace_event", "namespace", "namespace_resources", "admin_secret",
          "install_event", "helm", "ready", "failed"}

\* C1: with gate capacity MAX_CONCURRENT_PROVISIONS and more stores than
\* permits reconciled side by side, the installer never runs for more than
\* MAX_CONCURRENT_PROVISIONS stores at once.
C1_ConcurrencyBound == Cardinality(InFlight) <= MAX_CONCURRENT_PROVISIONS
\* The gate is full of running installs while a further store waits for it.
C1_Witness ==
    /\ Cardinality(InFlight) = MAX_CONCURRENT_PROVISIONS
    /\ \E s \in Stores : pc[s] = "acquire"

\* C2: a store resource is never seen without the finalizer while the
\* tenant namespace the controller made for it still exists.
C2_FinalizerSafety ==
    \A s \in Stores :
        (present[s] /\ TenantNs(s).exists /\ TenantNs(s).creator = "controller")
            => FINALIZER \in finalizers[s]

\* C3: a tenant namespace goes away only in on_delete's delete_namespace
\* step, and only when the labels the ownership check read carried both the
\* managed marker "true" and the resource's storeId; no other step of any
\* handler deletes a namespace.
C3_DeleteOnlyOwned ==
    [][\A s \in Stores :
          (TenantNs(s).exists /\ ~TenantNs(s)'.exists)
              => /\ pc[s] = "delete_namespace"
                 /\ STORE_MANAGED_LABEL \in DOMAIN labels[s]
                 /\ labels[s][STORE_MANAGED_LABEL] = "true"
                 /\ STORE_ID_LABEL \in DOMAIN labels[s]
                 /\ labels[s][STORE_ID_LABEL] = StoreId(s)]_vars
\* on_delete has deleted a namespace whose labels it found to be its own.
C3_Witness ==
    \E s \in Stores :
        /\ pc[s] = "deleted"
        /\ labels[s] = OwnershipLabels(StoreId(s))
        /\ ~TenantNs(s).exists

\* C4: a namespace that somebody else made, found under the store's
\* namespace name without the ownership label pair, is never deleted.
C4_CollisionNeverDeleted ==
    [][\A n \in NsNames :
          (nsobj[n].exists /\ nsobj[n].creator = "external") => nsobj'[n].exists]_vars

\* C5: a step of on_create on a resource that is Ready at its current
\* generation writes no status, finalizer, namespace, quota, secret or
\* release and takes no permit.
C5_CreateIdempotent ==
    [][\A s \in Stores :
          (/\ Handler(s) = "create"
           /\ pc[s] # "idle"
           /\ pc'[s] # pc[s]
           /\ Phase(s) = "Ready"
           /\ Get(status[s], "observedGeneration", -1) = generation[s])
              => /\ status' = status
                 /\ finalizers' = finalizers
                 /\ nsobj' = nsobj
                 /\ sem' = sem]_vars

\* C6: on_resume of a resource whose phase is Ready and whose
\* observedGeneration is the generation it is called with returns at once:
\* status, finalizers, permits, namespaces, secrets and releases stay as
\* they are and no reconcile step follows.
C6_ResumeShortCircuit ==
    [][\A s \in Stores :
          (/\ pc[s] = "on_resume"
           /\ pc'[s] # pc[s]
           /\ Phase(s) = "Ready"
           /\ Get(status[s], "observedGeneration", -1) = metaGen[s])
              => /\ pc'[s] = "idle"
                 /\ status' = status
                 /\ finalizers' = finalizers
                 /\ nsobj' = nsobj
                 /\ sem' = sem]_vars
\* A resume of a live, Ready, up-to-date resource has returned early.
C6_Witness ==
    \E s \in Stores :
        /\ result[s] = Result("resume", "skipped", 0)
        /\ ~deletionTimestamp[s]
        /\ Phase(s) = "Ready"
        /\ status[s]["observedGeneration"] = generation[s]

\* The secret holds a non-empty username and password.
C7_Issued(sec) ==
    /\ sec.exists
    /\ {"username", "password"} \subseteq DOMAIN sec.data
    /\ sec.data["username"] # B64Encode("")
    /\ sec.data["password"] # B64Encode("")
\* C7: while a tenant namespace exists, a secret that holds a non-empty
\* username and password is never rewritten, and every ensure_admin_secret
\* call returns exactly the pair the secret holds after it; the call writes
\* the secret only when it was missing or lacked one of the two.
C7_CredentialStability ==
    [][\A s \in Stores :
          LET before == TenantNs(s).secret
              after == TenantNs(s)'.secret
          IN  /\ (C7_Issued(before) /\ TenantNs(s)'.exists) => after = before
              /\ (pc[s] = "admin_secret" /\ pc'[s] = "install_event")
                    => /\ C7_Issued(after)
                       /\ B64Encode(admin'[s].user) = after.data["username"]
                       /\ B64Encode(admin'[s].password) = after.data["password"]]_vars
\* A pass after a completed one got the stored pair back from the secret.
C7_Witness ==
    \E s \in Stores :
        /\ pc[s] = "install_event"
        /\ "readyAt" \in DOMAIN status[s]
        /\ C7_Issued(TenantNs(s).secret)
        /\ admin[s] = SecretCredentials(TenantNs(s).secret)

\* C8: status.events never holds more than MAX_STATUS_EVENTS entries, and it
\* holds the most recently passed events, oldest first: entry i is event
\* number appended - Len + i.
C8_EventHistoryBound ==
    LET ev == Get(status["s1"], "events", <<>>)
        kept == IF appended < MAX_STATUS_EVENTS THEN appended ELSE MAX_STATUS_EVENTS
    IN  /\ Len(ev) = kept
        /\ \A i \in 1..Len(ev) : ev[i].message = <<appended - kept + i>>
\* More events were passed than the history keeps.
C8_Witness ==
    /\ appended > MAX_STATUS_EVENTS + 1
    /\ Len(status["s1"]["events"]) = MAX_STATUS_EVENTS

\* C9: a store whose engine is not in the registry never gets the
\* finalizer, a permit, a namespace, quota, secret or release from the
\* controller; its on_create / on_resume ends with PermanentError, phase
\* Failed, lastError and a Failed event naming the engine, or, when the
\* status write itself fails, with that write's exception.
C9_UnknownEngine ==
    \A s \in Stores :
        ~(engine[s] \in ENGINE_HANDLERS) =>
            /\ pc[s] \notin Gated \cup {"provisioning", "acquire"}
            /\ TenantNs(s).creator # "controller"
            /\ ~TenantNs(s).quota
            /\ TenantNs(s).releases = {}
            /\ "storeId" \notin DOMAIN TenantNs(s).secret.data
            /\ (result[s].handler \in {"create", "resume"} /\ pc[s] = "idle"
                /\ result[s].outcome # "skipped")
                  => \/ /\ result[s].outcome = "PermanentError"
                        /\ Phase(s) = "Failed"
                        /\ status[s]["lastError"] = <<"Unsupported engine", engine[s]>>
                        /\ LastEvent(s) = Event("Failed", <<"Unsupported engine", engine[s]>>)
                     \/ /\ result[s].outcome = "Exception"
                        /\ faults < MaxFaults
\* A create of a store with an unknown engine ended in PermanentError.
C9_Witness ==
    \E s \in Stores :
        /\ engine[s] = "bogus"
        /\ result[s] = Result("create", "PermanentError", 0)
        /\ Phase(s) = "Failed"

\* C10: a reconcile leaves the acquire step without a permit only when no
\* permit is free; it then writes phase Failed with the lock-timeout
\* message and signals TemporaryError with a positive delay of at most a
\* minute (or raises the failure of that status write), touches no
\* namespace, secret or release, and leaves the permits as they were.
C10_GateTimeout ==
    [][\A s \in Stores :
          (pc[s] = "acquire" /\ pc'[s] = "idle")
              => /\ sem = 0
                 /\ sem' = sem
                 /\ nsobj' = nsobj
                 /\ \/ /\ result'[s].outcome = "TemporaryError"
                       /\ result'[s].delay > 0
                       /\ result'[s].delay <= 60
                       /\ Phase(s)' = "Failed"
                       /\ status'[s]["lastError"] = <<"Provisioning lock timeout">>
                       /\ LastEvent(s)' = Event("Failed", <<"Provisioning lock timeout">>)
                    \/ /\ result'[s].outcome = "Exception"
                       /\ faults' < faults
                       /\ status' = status]_vars
\* A store timed out at the gate while the permits were all held.
C10_Witness ==
    \E s \in Stores :
        /\ result[s] = Result("create", "TemporaryError", 15)
        /\ Phase(s) = "Failed"
        /\ sem = 0
        /\ Cardinality({o \in Stores : pc[o] \in Gated}) = MAX_CONCURRENT_PROVISIONS

\* The steps of status.phase the state machine names.
AllowedPhaseSteps ==
    {<<NoPhase, "Provisioning">>, <<"Provisioning", "Ready">>,
     <<"Provisioning", "Failed">>, <<"Ready", "Provisioning">>,
     <<"Failed", "Provisioning">>, <<"Deleting", "Deleted">>}
        \cup {<<p, "Deleting">> : p \in {NoPhase, "Provisioning", "Ready", "Failed", "Deleted"}}
\* C11 as stated: status.phase changes only by (none) -> Provisioning,
\* Provisioning -> Ready, Provisioning -> Failed, Ready/Failed ->
\* Provisioning, any -> Deleting and Deleting -> Deleted.
C11_PhaseMachineStrict ==
    [][\A s \in Stores :
          Phase(s)' # Phase(s) => <<Phase(s), Phase(s)'>> \in AllowedPhaseSteps]_vars
\* C11, amended: status.phase changes only by the steps of the state
\* machine, or to Failed with the unsupported-engine event, from a phase
\* other than Deleting and Deleted, for a store whose engine is not in the
\* registry; from Deleting or Deleted it never goes to Provisioning, Ready
\* or Failed.
C11_PhaseMachine ==
    [][\A s \in Stores :
          Phase(s)' # Phase(s) =>
             \/ <<Phase(s), Phase(s)'>> \in AllowedPhaseSteps
             \/ /\ engine[s] \notin ENGINE_HANDLERS
                /\ Phase(s) \notin {"Deleting", "Deleted"}
                /\ Phase(s)' = "Failed"
                /\ LastEvent(s)' = Event("Failed", <<"Unsupported engine", engine[s]>>)]_vars
\* A store of an unknown engine went (none) -> Failed -> Deleting -> Deleted.
C11_Witness ==
    \E s \in Stores :
        /\ engine[s] \notin ENGINE_HANDLERS
        /\ Phase(s) = "Deleted"
        /\ [i \in 1..Len(status[s]["events"]) |-> status[s]["events"][i].type]
              = <<"Failed", "Deleting", "Deleted">>

\* C12: once the ProvisioningStarted write has succeeded (status carries
\* the url it records), the finalizer leaves metadata.finalizers only in
\* an on_delete whose teardown has completed: nothing was raised and phase
\* Deleted is written.
C12_FinalizerKept ==
    [][\A s \in Stores :
          (/\ "url" \in DOMAIN status[s]
           /\ FINALIZER \in finalizers[s]
           /\ FINALIZER \notin finalizers'[s])
              => /\ Handler(s) = "delete"
                 /\ exc[s] = NoExc
                 /\ Phase(s) = "Deleted"]_vars

\* C18: a reconcile step writes a status of phase Provisioning, or makes or
\* changes the tenant namespace, its quota, secret or releases, only for a
\* resource that carries the finalizer; an entry step that ends the handler
\* (the attach failed, or the engine is unknown) writes no Provisioning
\* status, no namespace and takes no permit; and at every later point of
\* the pass, where a crash may stop it, the finalizer is and stays present.
C18_FinalizerFirst ==
    [][\A s \in Stores :
          LET step == pc[s] # "idle" /\ pc'[s] # pc[s] /\ Handler(s) \in {"create", "resume"}
              wrote == status'[s] # status[s] /\ Phase(s)' = "Provisioning"
              made == TenantNs(s)' # TenantNs(s)
          IN  /\ (step /\ (wrote \/ made)) => FINALIZER \in finalizers[s]
              /\ (pc[s] \in {"on_create", "on_resume"} /\ pc'[s] = "idle")
                    => /\ ~wrote /\ ~made /\ sem' = sem
                       /\ finalizers' = finalizers
              /\ pc[s] \in Gated \cup {"provisioning", "acquire"}
                    => /\ FINALIZER \in finalizers[s]
                       /\ FINALIZER \in finalizers'[s]]_vars
\* A pass broke off inside the guarded section, after it had made the
\* namespace: the resource carries the finalizer.
C18_Witness ==
    \E s \in Stores :
        /\ pc[s] = "failed"
        /\ TenantNs(s).creator = "controller"
        /\ FINALIZER \in finalizers[s]

\* C19: on_delete ends only through its finalizer removal, whatever the
\* Deleting write, the uninstall, the ownership check, the namespace
\* deletion and the Deleted write did; the removal, when its call succeeds,
\* takes the token off, and when it fails nothing is raised for it; a
\* namespace that fails the ownership check is left as it is and the handler
\* goes on to the Deleted write.
C19_DeleteAlwaysRemoves ==
    [][\A s \in Stores :
          (Handler(s) = "delete" /\ pc[s] # "idle" /\ pc'[s] # pc[s]) =>
             /\ pc'[s] = "idle" => pc[s] = "remove_finalizer"
             /\ pc[s] = "remove_finalizer" =>
                   /\ faults' = faults => FINALIZER \notin finalizers'[s]
                   /\ exc[s] = NoExc => result'[s] = Result("delete", "ok", 0)
             /\ (/\ pc[s] = "ownership"
                 /\ faults' = faults
                 /\ TenantNs(s).exists
                 /\ ~LabelsOwned(TenantNs(s).labels, StoreId(s)))
                   => pc'[s] = "deleted" /\ nsobj' = nsobj]_vars
\* A Ready store whose namespace was relabelled has been deleted: the
\* namespace is still there, phase is Deleted, the finalizer is gone.
C19_Witness ==
    \E s \in Stores :
        /\ result[s] = Result("delete", "ok", 0)
        /\ Phase(s) = "Deleted"
        /\ "readyAt" \in DOMAIN status[s]
        /\ TenantNs(s).exists
        /\ TenantNs(s).creator = "controller"
        /\ ~LabelsOwned(TenantNs(s).labels, StoreId(s))
        /\ FINALIZER \notin finalizers[s]

\* C13: a store of a supported engine that is not deleted reaches phase
\* Ready, however its earlier passes failed, and a pass that waits at the
\* gate leaves the wait.
C13_EventuallyReady ==
    \A s \in Stores :
        /\ present[s] => <>(Phase(s) = "Ready")
        /\ [](pc[s] = "acquire" => <>(pc[s] # "acquire"))
\* The store is Ready although every failure of the run has happened and
\* the passes of the other stores went through the gate.
C13_Witness ==
    \E s \in Stores :
        /\ Phase(s) = "Ready"
        /\ result[s] = Result("create", "ok", 0)
        /\ faults = 0
        /\ budget = 0

\* C17: a reconcile takes one permit when it enters the guarded section
\* and gives one back when it leaves it, by whichever exit; no other step
\* of it touches the permits; the free permits never exceed
\* MAX_CONCURRENT_PROVISIONS, and they are all free whenever no pass, of
\* this store or another, is inside the section.
C17_GateRelease ==
    [][/\ \A s \in Stores :
            /\ (pc[s] \notin Gated /\ pc'[s] \in Gated) => sem' = sem - 1
            /\ (pc[s] \in Gated /\ pc'[s] \notin Gated) => sem' = sem + 1
            /\ (pc'[s] # pc[s] /\ ((pc[s] \in Gated) <=> (pc'[s] \in Gated)))
                  => sem' = sem
       /\ sem' <= MAX_CONCURRENT_PROVISIONS
       /\ sem' + others' + Cardinality({s \in Stores : pc'[s] \in Gated})
             = MAX_CONCURRENT_PROVISIONS]_vars
\* A pass left the guarded section by the exception of its Failed write,
\* with no other store at the gate: both permits are free again.
C17_Witness ==
    \E s \in Stores :
        /\ pc[s] = "idle"
        /\ result[s].outcome = "Exception"
        /\ Phase(s) = "Provisioning"
        /\ TenantNs(s).exists
        /\ faults = 0
        /\ budget = MaxOtherPasses
        /\ sem = MAX_CONCURRENT_PROVISIONS

\* C20 as stated: a pass in which a step of the guarded section raised
\* never ends with phase Ready or Provisioning: it ends with phase Failed,
\* lastError the failure's message, and the same error raised.
C20_FailureAlwaysRecorded ==
    [][\A s \in Stores :
          (pc[s] = "failed" /\ pc'[s] = "idle")
              => /\ Phase(s)' = "Failed"
                 /\ Get(status'[s], "lastError", NoMessage) = exc[s].msg
                 /\ result'[s].error = exc[s].msg]_vars
\* C20, amended: a step of the guarded section that raises leads to the
\* except block; the block writes phase Failed, lastError and a Failed
\* event with the failure's message, the release name, namespace and
\* observed generation, and the pass ends raising that same error; or the
\* Failed write itself raises, the status stays as it was and the pass ends
\* raising the write's error. No such pass ends with phase Ready.
C20_FailureRecorded ==
    [][\A s \in Stores :
          /\ (pc[s] \in Gated /\ pc'[s] # pc[s] /\ faults' < faults /\ pc[s] # "failed")
                => /\ pc'[s] = "failed"
                   /\ exc'[s] # NoExc
          /\ (pc[s] = "failed" /\ pc'[s] # pc[s])
                => /\ pc'[s] = "idle"
                   /\ exc[s] # NoExc
                   /\ \/ /\ faults' = faults
                         /\ Phase(s)' = "Failed"
                         /\ status'[s]["lastError"] = exc[s].msg
                         /\ LastEvent(s)' = Event("Failed", exc[s].msg)
                         /\ status'[s]["releaseName"] = build_release_name(engine[s], StoreId(s))
                         /\ status'[s]["namespace"] = store_namespace(StoreId(s))
                         /\ status'[s]["observedGeneration"] = metaGen[s]
                         /\ result'[s].outcome = "Exception"
                         /\ result'[s].error = exc[s].msg
                      \/ /\ faults' < faults
                         /\ status' = status
                         /\ Phase(s) # "Ready"
                         /\ result'[s].outcome = "Exception"
                         /\ result'[s].error = <<"ApiException", "status">>]_vars
\* The installer failed: the pass ended with phase Failed, the installer's
\* message as lastError and as the error raised.
C20_Witness ==
    \E s \in Stores :
        /\ pc[s] = "idle"
        /\ Phase(s) = "Failed"
        /\ status[s]["lastError"] = HelmFailed.msg
        /\ result[s].outcome = "Exception"
        /\ result[s].error = HelmFailed.msg
        /\ TenantNs(s).releases = {}

C15_RateLimit ==
    \A ip \in Ips, t \in 0..MaxClock :
        Cardinality({i \in 1..Len(passed) :
                        /\ passed[i].ip = ip
                        /\ passed[i].at >= t
                        /\ passed[i].at < t + RATE_WINDOW_SECONDS})
            <= CREATE_RATE_LIMIT

\* C16: the resources without a deletionTimestamp never number more than
\* MAX_ACTIVE_STORES, and those requested by one caller never more than
\* MAX_STORES_PER_IP.
C16_Quotas ==
    LET active == {s \in Stores : present[s] /\ ~deletionTimestamp[s]} IN
    /\ Cardinality(active) <= MAX_ACTIVE_STORES
    /\ \A ip \in Ips :
          Cardinality({s \in active : requestedBy[s] = ip}) <= MAX_STORES_PER_IP

\* C21: whenever phase is Ready, lastError is absent, readyAt is set, url,
\* namespace and releaseName are the values derived from storeId, and the
\* write that made it Ready came at the end of a pass without error, with
\* the namespace, its quota, the credentials and the release in place and
\* observedGeneration the generation the pass ran with.
C21_ReadyInvariant ==
    [][\A s \in Stores :
          Phase(s)' = "Ready"
              => /\ "lastError" \notin DOMAIN status'[s]
                 /\ Get(status'[s], "readyAt", "") = now_iso
                 /\ Get(status'[s], "url", "") = store_url(StoreId(s))
                 /\ Get(status'[s], "namespace", "") = store_namespace(StoreId(s))
                 /\ Get(status'[s], "releaseName", "")
                       = build_release_name(engine[s], StoreId(s))
                 /\ Phase(s) # "Ready"
                       => /\ pc[s] = "ready"
                          /\ exc[s] = NoExc
                          /\ status'[s]["observedGeneration"] = metaGen[s]
                          /\ TenantNs(s).exists
                          /\ TenantNs(s).quota
                          /\ SecretHasCredentials(TenantNs(s).secret)
                          /\ build_release_name(engine[s], StoreId(s))
                                \in TenantNs(s).releases]_vars

\* C22: a pass that ends on the gate timeout or on the installer's timeout
\* raises a TemporaryError with a delay from 1 to LOCK_TIMEOUT_DELAY, and a
\* pass for an unknown engine raises a PermanentError.
C22_ErrorClasses ==
    [][\A s \in Stores :
          (pc[s] # "idle" /\ pc'[s] = "idle" /\ faults' = faults)
              => /\ pc[s] = "acquire"
                    => /\ result'[s].outcome = "TemporaryError"
                       /\ result'[s].delay \in 1..LOCK_TIMEOUT_DELAY
                 /\ (pc[s] = "failed" /\ exc[s] = HelmTimeout)
                    => /\ result'[s].outcome = "TemporaryError"
                       /\ result'[s].delay \in 1..LOCK_TIMEOUT_DELAY
                 /\ (/\ pc[s] \in {"on_create", "on_resume"}
                     /\ ~EngineKnown(engine[s])
                     /\ result'[s].outcome # "skipped")
                    => result'[s].outcome = "PermanentError"]_vars

\* C23: a handler that ends raising has written the failure to the status
\* first: a Failed event and lastError with the same message.
C23_FailuresRecorded ==
    [][\A s \in Stores :
          (/\ pc[s] # "idle" /\ pc'[s] = "idle"
           /\ result'[s].outcome \in {"Exception", "TemporaryError", "PermanentError"})
              => /\ status'[s] # status[s]
                 /\ LastEvent(s)'.type = "Failed"
                 /\ "lastError" \in DOMAIN status'[s]
                 /\ status'[s]["lastError"] = LastEvent(s)'.message]_vars

\* C24: a NamespaceReady event is the latest of status.events only when
\* ensure_namespace has gone through: the tenant namespace exists.
C24_EventAfterStep ==
    \A s \in Stores :
        LastEvent(s).type = "NamespaceReady" => TenantNs(s).exists

\* C25: status.observedGeneration changes only in a write that sets phase
\* Ready or Failed.
C25_ObservedGeneration ==
    [][\A s \in Stores :
          Get(status'[s], "observedGeneration", 0) # Get(status[s], "observedGeneration", 0)
              => Phase(s)' \in {"Ready", "Failed"}]_vars

\* C27: on_resume for a resource with a deletionTimestamp ends at once and
\* changes nothing: no status, no finalizer, no permit, no namespace, secret
\* or release, whatever the phase and observedGeneration are.
C27_ResumeLeavesDeleted ==
    [][\A s \in Stores :
          (pc[s] = "on_resume" /\ deletionTimestamp[s] /\ pc'[s] # pc[s])
              => /\ pc'[s] = "idle"
                 /\ result'[s] = Result("resume", "skipped", 0)
                 /\ UNCHANGED <<present, engine, generation, deletionTimestamp,
                                finalizers, status, nsobj, sem, others>>]_vars
\* on_resume left alone a resource under deletion that was not Ready, its
\* namespace and finalizer still there.
C27_Witness ==
    \E s \in Stores :
        /\ present[s] /\ deletionTimestamp[s]
        /\ pc[s] = "idle"
        /\ result[s] = Result("resume", "skipped", 0)
        /\ Phase(s) \in {"Provisioning", "Failed"}
        /\ FINALIZER \in finalizers[s]

\* C26: an on_create or on_resume invocation that ends with a status write
\* leaves neither adminUser nor adminPassword in the status.
C26_NoCredentialsInStatus ==
    [][\A s \in Stores :
          (/\ pc[s] # "idle" /\ pc'[s] = "idle"
           /\ Handler(s) \in {"create", "resume"}
           /\ status'[s] # status[s])
              => DOMAIN status'[s] \cap CredentialFields = {}]_vars

====
